---- MODULE Spec2Model ----
(***************************************************************************)
(* Model of table_ocr (src/src/main.rs): the separator grid, the crop of   *)
(* a cell out of the pixel buffer, the cleaning of recognised text and the *)
(* background OCR run.                                                     *)
(*                                                                         *)
(* Positions are f64 in the source.  They are modelled in fixed point: an  *)
(* integer p stands for p / One, so One stands for the literal 1.0.        *)
(* Text is a sequence of one-character strings; "LSQ" stands for the       *)
(* left-single-quote glyph U+2018.                                         *)
(***************************************************************************)
EXTENDS Integers, Sequences, FiniteSets, TLC

VARIABLES
    raw_text,   \* cleaner: the text read from the recogniser's output file
    co,         \* cleaner: the CleaningOptions in force
    ocr_out,    \* cleaner: the cleaned text
    crop_in,    \* crop_buffer: its arguments
    crop_out,   \* crop_buffer: its result
    fn_pc,      \* "in" before the pure function under study ran, "out" after
    image,          \* TableGrid.image: Option<TableImage>
    grid,           \* TableGrid.grid
    cmd_template,   \* TableGrid.cmd_template
    ss,             \* SHARED_STATE: extents and drag_enabled
    process_task,   \* TableGrid.process_task: BackgroundTask<BackgroundOCR>
    run,            \* the thread executing BackgroundOCR::on_exec
    progress,       \* the Progress counter shared by the thread and the UI
    threads,        \* number of on_exec executions that have not ended
    runs,           \* number of on_exec executions started so far
    fs,             \* the files under /tmp: path -> content
    faults,         \* whether file and process system calls can fail (fixed)
    edits,          \* editing inputs so far; Unbounded where they are not capped
    frame           \* what the latest TableGrid::update did (history)

clean_vars == << raw_text, co, ocr_out >>
crop_vars == << crop_in, crop_out >>
fn_vars == << raw_text, co, ocr_out, crop_in, crop_out, fn_pc >>
ui_vars == << image, grid, cmd_template, ss, frame, edits >>
task_vars == << process_task, run, progress, threads, runs, fs, faults >>
app_vars == << image, grid, cmd_template, ss, frame, edits, process_task, run, progress, threads, runs, fs,
              faults >>
vars == << raw_text, co, ocr_out, crop_in, crop_out, fn_pc,
           image, grid, cmd_template, ss, frame, edits, process_task, run, progress, threads, runs, fs,
           faults >>

\* ---------------------------------------------------------------- bounds
\* longest raw text enumerated for the cleaner
MaxLen == 4
\* most separators (horizontal plus vertical) the user places
MaxSeps == 6
\* most runs of the background task started in one session
MaxRuns == 2
\* most editing inputs (anything but an idle frame, the first image and the
\* Extract click) in one session of the whole application
MaxEdits == 2
\* largest image side enumerated for crop_buffer
MaxSide == 3
\* how far outside [0, 1] the enumerated crop coordinates reach
MaxOvershoot == 10

\* ------------------------------------------------------------- constants
\* fixed-point image of the literal 1.0 of clip: the integer p stands for the
\* f64 position p / One.  The positions and image sides used below keep every
\* product position * side either exact in f64 (quarters) or away from an
\* integer, so that truncating the exact product is what `as usize` yields.
One == 20

Min2(a, b) == IF a <= b THEN a ELSE b
Max2(a, b) == IF a >= b THEN a ELSE b
SetMin(S) == CHOOSE m \in S : \A e \in S : m <= e
SetMax(S) == CHOOSE m \in S : \A e \in S : m >= e

\* ================================================================ cleaner
CleaningOptions == [trim_whitespace : BOOLEAN, trim_single_quote : BOOLEAN,
                    trim_double_quote : BOOLEAN, no_newlines : BOOLEAN]

DefaultCleaningOptions == [trim_whitespace |-> TRUE, trim_single_quote |-> TRUE,
                           trim_double_quote |-> TRUE, no_newlines |-> TRUE]

\* char::is_whitespace on the characters the model uses
Whitespace == {" ", "\n", "\t", "\r"}

\* str::trim_matches: drop every leading and trailing character in M
TrimMatches(s, M) ==
    LET keep == {k \in 1..Len(s) : s[k] \notin M}
    IN  IF keep = {} THEN << >> ELSE SubSeq(s, SetMin(keep), SetMax(keep))

\* str::trim
Trim(s) == TrimMatches(s, Whitespace)

\* str::replace(c, ""): delete every occurrence of c
RECURSIVE RemoveAll(_, _)
RemoveAll(s, c) ==
    IF s = << >> THEN << >>
    ELSE IF Head(s) = c THEN RemoveAll(Tail(s), c)
    ELSE << Head(s) >> \o RemoveAll(Tail(s), c)

\* the cleaning steps of the job closure
Clean(raw, o) ==
    LET s1 == IF o.trim_whitespace THEN Trim(raw) ELSE raw
        s2 == IF o.trim_single_quote
              THEN TrimMatches(TrimMatches(s1, {"'"}), {"LSQ"}) ELSE s1
        s3 == IF o.trim_double_quote THEN TrimMatches(s2, {"\""}) ELSE s2
    IN  IF o.no_newlines THEN RemoveAll(s3, "\n") ELSE s3

\* ============================================================ crop_buffer
\* A ColorImage is named by its size << width, height >> and by the rotation
\* that produced its content; Pixels gives its buffer: row-major, one Color32
\* << r, g, b, a >> per pixel, size[1] * size[2] of them.
Color32(k) == << k % 256, (7 * k) % 256, (13 * k) % 256, 255 >>

TestImage(w, t) == [size |-> << w, t >>, rot |-> 0]

Pixels(cim) ==
    LET n == cim.size[1] * cim.size[2]
    IN  [k \in 1..n |-> IF cim.rot = 0 THEN Color32(k) ELSE Color32(n + 1 - k)]

\* the variant that forgets the upper clamp
ClipNoUpper(x) == Max2(x, 0)

\* clip: x.max(0.0).min(1.0)
clip(x) == Min2(Max2(x, 0), One)

\* the variant that rounds to nearest instead of truncating
ScaleRound(v, n) == IF v * n < 0 THEN 0 ELSE (2 * v * n + One) \div (2 * One)

\* (v * n) as usize: the float product truncated toward zero, saturating at 0
Scale(v, n) == IF v * n < 0 THEN 0 ELSE (v * n) \div One

\* the loops `for j in j0..j1 { for i in i0..i1 {..} }`: byte k of the output
\* is channel (k - 1) % 4 of the pixel pushed as number (k - 1) \div 4, which
\* is the pixel of row j0 + p \div (i1 - i0) and column i0 + p % (i1 - i0)
PushLoops(pixels, w, j0, j1, i0, i1) ==
    [k \in 1..(4 * (i1 - i0) * (j1 - j0)) |->
        LET p == (k - 1) \div 4
            j == j0 + (p \div (i1 - i0))
            i == i0 + (p % (i1 - i0))
        IN  pixels[j * w + i + 1][((k - 1) % 4) + 1]]

\* crop_buffer.  `reads` are the (i, j) the loops index cim.pixels with;
\* `underflow` is the usize subtraction i1 - i0 or j1 - j0 going below zero and
\* `oob` an index past the end of cim.pixels (width * height entries), both of
\* which panic.
crop_buffer(cim, x1, x2, y1, y2) ==
    LET w == cim.size[1]
        t == cim.size[2]
        i0 == Scale(clip(Min2(x1, x2)), w)
        i1 == Scale(clip(Max2(x1, x2)), w)
        j0 == Scale(clip(One - Max2(y1, y2)), t)
        j1 == Scale(clip(One - Min2(y1, y2)), t)
        underflow == i1 < i0 \/ j1 < j0
        reads == {<< i, j >> : i \in i0..(i1 - 1), j \in j0..(j1 - 1)}
        oob == \E r \in reads : r[2] * w + r[1] >= w * t
    IN  [i0 |-> i0, i1 |-> i1, j0 |-> j0, j1 |-> j1,
         underflow |-> underflow, oob |-> oob, reads |-> reads,
         size |-> << i1 - i0, j1 - j0 >>,
         out |-> IF underflow \/ oob THEN << >> ELSE PushLoops(Pixels(cim), w, j0, j1, i0, i1)]

NoCropIn == [cim |-> TestImage(0, 0), x1 |-> 0, x2 |-> 0, y1 |-> 0, y2 |-> 0]
NoCropOut == crop_buffer(NoCropIn.cim, 0, 0, 0, 0)

\* =================================================================== grid
\* Grid::default: horizontals at 0.8, 0.9 and verticals at 0.1, 0.2
GridDefault == [horizontals |-> << 16, 18 >>, verticals |-> << 2, 4 >>]

RECURSIVE InsertSorted(_, _)
InsertSorted(s, x) ==
    IF s = << >> THEN << x >>
    ELSE IF x < Head(s) THEN << x >> \o s
    ELSE << Head(s) >> \o InsertSorted(Tail(s), x)

\* slice::sort_by with partial_cmp on the positions (stable, ascending)
RECURSIVE SortAsc(_)
SortAsc(s) ==
    IF s = << >> THEN << >>
    ELSE InsertSorted(SortAsc(SubSeq(s, 1, Len(s) - 1)), s[Len(s)])

\* the variant that leaves the horizontals as they are
sort_horiz_none(g) == g
\* Grid::sort_horiz
sort_horiz(g) == [g EXCEPT !.horizontals = SortAsc(@)]
\* the variant that leaves the verticals as they are
sort_vert_none(g) == g
\* Grid::sort_vert
sort_vert(g) == [g EXCEPT !.verticals = SortAsc(@)]

\* TableGrid::update_extents: first and last element of each sequence
update_extents(g) ==
    [xmin |-> g.verticals[1], xmax |-> g.verticals[Len(g.verticals)],
     ymin |-> g.horizontals[1], ymax |-> g.horizontals[Len(g.horizontals)]]

\* SharedState::default: delta_x = 0.005, in tenths of a position unit
DeltaTenths == 1

\* HorizSep::in_bounds (delta_y = delta_x * aspect ratio, square images here)
HorizInBounds(y, extents, pointer) ==
    /\ 10 * y - DeltaTenths < 10 * pointer[2]
    /\ 10 * pointer[2] < 10 * y + DeltaTenths
    /\ extents.xmin < pointer[1]
    /\ pointer[1] < extents.xmax

\* VertSep::in_bounds
VertInBounds(x, extents, pointer) ==
    /\ 10 * x - DeltaTenths < 10 * pointer[1]
    /\ 10 * pointer[1] < 10 * x + DeltaTenths
    /\ extents.ymin < pointer[2]
    /\ pointer[2] < extents.ymax

\* the variant in which a hit separator leaves drag_enabled set
RECURSIVE DragAll(_, _, _, _, _, _)
DragAll(seps, hits, d, k, enabled, n) ==
    IF k > Len(seps) THEN [seps |-> seps, enabled |-> enabled, n |-> n]
    ELSE IF hits[k] /\ enabled
         THEN DragAll([seps EXCEPT ![k] = @ + d], hits, d, k + 1, enabled, n + 1)
         ELSE DragAll(seps, hits, d, k + 1, enabled, n)

\* the loop over one separator sequence in Grid::plot_inspect: each separator
\* runs its plot_inspect; a hit clears drag_enabled and translates it.
\* n counts the separators translated.
RECURSIVE PlotInspectSeps(_, _, _, _, _, _)
PlotInspectSeps(seps, hits, d, k, enabled, n) ==
    IF k > Len(seps) THEN [seps |-> seps, enabled |-> enabled, n |-> n]
    ELSE IF hits[k] /\ enabled
         THEN PlotInspectSeps([seps EXCEPT ![k] = @ + d], hits, d, k + 1, FALSE, n + 1)
         ELSE PlotInspectSeps(seps, hits, d, k + 1, enabled, n)

NoPointer == << >>

\* Grid::plot_inspect: horizontals first, then verticals
plot_inspect(g, extents, drag_enabled, pointer, dd) ==
    IF pointer = NoPointer
    THEN [grid |-> g, enabled |-> drag_enabled, n |-> 0]
    ELSE LET hh == [k \in 1..Len(g.horizontals) |->
                       HorizInBounds(g.horizontals[k], extents, pointer)]
             rh == PlotInspectSeps(g.horizontals, hh, dd[2], 1, drag_enabled, 0)
             vh == [k \in 1..Len(g.verticals) |->
                       VertInBounds(g.verticals[k], extents, pointer)]
             rv == PlotInspectSeps(g.verticals, vh, dd[1], 1, rh.enabled, rh.n)
         IN  [grid |-> [horizontals |-> rh.seps, verticals |-> rv.seps],
              enabled |-> rv.enabled, n |-> rv.n]

\* the middle-button branch: every separator translated by the drag delta
translate_all(g, dd) ==
    [horizontals |-> [k \in 1..Len(g.horizontals) |-> g.horizontals[k] + dd[2]],
     verticals |-> [k \in 1..Len(g.verticals) |-> g.verticals[k] + dd[1]]]

\* ================================================================== image
EmptyImage == TestImage(0, 0)
NoImage == [loaded |-> FALSE, base |-> EmptyImage, rotated |-> EmptyImage, theta |-> 0]

\* rotate_about_center: an image of the same size with other pixels when the
\* angle is not zero
Rotate(base, theta) ==
    [base EXCEPT !.rot = theta]

\* TableGrid::load_image
load_image(cim) == [loaded |-> TRUE, base |-> cim, rotated |-> cim, theta |-> 0]

\* TableImage::inspect_rotation
inspect_rotation(img, theta) ==
    IF theta # img.theta
    THEN [img EXCEPT !.rotated = Rotate(img.base, theta), !.theta = theta]
    ELSE img

\* ======================================================= command templates
\* a template is the sequence of its whitespace-separated words, each word a
\* sequence of pieces: literal text or one of the two placeholders
Tesseract == << << "tesseract" >>, << "-l" >>, << "eng" >>, << "%img_in%" >>, << "%txt_out%" >> >>
Cuneiform == << << "cuneiform" >>, << "-l" >>, << "eng" >>, << "-f" >>, << "text" >>,
                << "-o" >>, << "%txt_out%", ".txt" >>, << "%img_in%" >> >>
\* a user's own recogniser, which writes exactly to the path it is given
Custom == << << "myocr" >>, << "%img_in%" >>, << "%txt_out%" >> >>

RECURSIVE Join(_)
Join(pieces) == IF pieces = << >> THEN "" ELSE Head(pieces) \o Join(Tail(pieces))

\* .replace("%img_in%", img_path).replace("%txt_out%", txt_path) and
\* split_whitespace: the words of the command
Materialize(template, img_path, txt_path) ==
    [w \in 1..Len(template) |->
        Join([q \in 1..Len(template[w]) |->
                 IF template[w][q] = "%img_in%" THEN img_path
                 ELSE IF template[w][q] = "%txt_out%" THEN txt_path
                 ELSE template[w][q]])]

\* the file a recogniser writes, by program: tesseract appends .txt to its
\* output base (last word), cuneiform writes the word after -o, the custom
\* recogniser writes its last word
OutputFileOf(cmd) ==
    IF cmd[1] = "tesseract" THEN cmd[Len(cmd)] \o ".txt"
    ELSE IF cmd[1] = "cuneiform" THEN cmd[7]
    ELSE cmd[Len(cmd)]

\* ========================================================= background task
\* #[derive(Default)] BackgroundOCR
TaskDefault ==
    [grid |-> GridDefault, cim |-> EmptyImage, cmd_template |-> << >>,
     ready |-> FALSE, n_tasks |-> 0, cleaning_options |-> DefaultCleaningOptions]

NoResult == [ok |-> FALSE, items |-> << >>]
NoRun == [pc |-> "idle", jobs |-> << >>, items |-> << >>]

\* the variant that reports Some(n_tasks) whether or not the task is ready
exec_always(task) == << task.n_tasks >>

\* BackgroundOCR::exec_with_expected_steps: << >> is None, << n >> is Some(n)
exec_with_expected_steps(task) == IF task.ready THEN << task.n_tasks >> ELSE << >>

\* slice::windows(2)
Windows2(s) == [k \in 1..(Len(s) - 1) |-> << s[k], s[k + 1] >>]
\* the variant that forgets .rev()
NoRev(s) == s
\* Iterator::rev
Rev(s) == [k \in 1..Len(s) |-> s[Len(s) + 1 - k]]
\* the variant that numbers every element 0
EnumerateZero(s) == [k \in 1..Len(s) |-> << 0, s[k] >>]
\* Iterator::enumerate, indices from 0
Enumerate(s) == [k \in 1..Len(s) |-> << k - 1, s[k] >>]
\* the variant that pairs the two sequences element by element
Zip(a, b) == [k \in 1..Min2(Len(a), Len(b)) |-> << a[k], b[k] >>]
\* Itertools::cartesian_product, the first sequence outermost
CartesianProduct(a, b) ==
    [k \in 1..(Len(a) * Len(b)) |->
        << a[((k - 1) \div Len(b)) + 1], b[((k - 1) % Len(b)) + 1] >>]

\* the iterator on_exec hands to par_bridge: ((i, hw), (j, vw)) per cell
JobInputs(g) ==
    CartesianProduct(Enumerate(Rev(Windows2(g.horizontals))),
                     Enumerate(Windows2(g.verticals)))

NoRect == [i0 |-> 0, i1 |-> 0, j0 |-> 0, j1 |-> 0]

\* one job of the run: its input, where its closure stands, what it did
NewJob(in) ==
    [i |-> in[1][1], hw |-> in[1][2], j |-> in[2][1], vw |-> in[2][2],
     pc |-> "queued", rect |-> NoRect, exit |-> 0 - 1, text |-> << >>]

\* the variant that sizes the table by the separator counts
ItemsInitFull(g) ==
    [r \in 1..Len(g.horizontals) |-> [c \in 1..Len(g.verticals) |-> << >>]]

\* vec![vec![String::new(); verticals.len() - 1]; horizontals.len() - 1]
ItemsInit(g) ==
    [r \in 1..(Len(g.horizontals) - 1) |-> [c \in 1..(Len(g.verticals) - 1) |-> << >>]]

\* the thread starting on_exec: the table allocated, every job queued
StartRun(task) ==
    [pc |-> "running",
     jobs |-> [n \in 1..Len(JobInputs(task.grid)) |-> NewJob(JobInputs(task.grid)[n])],
     items |-> ItemsInit(task.grid)]

\* the variant that names the crop image by its row only
ImgPathRowOnly(i, j) == "/tmp/ocr_crop_" \o ToString(i) \o ".png"
\* format!("/tmp/ocr_crop_{i}_{j}.png") and format!("/tmp/ocr_out_{i}_{j}")
ImgPath(i, j) == "/tmp/ocr_crop_" \o ToString(i) \o "_" \o ToString(j) \o ".png"
TxtPath(i, j) == "/tmp/ocr_out_" \o ToString(i) \o "_" \o ToString(j)
\* format!("{txt_path}.txt"), the file the closure reads
ReadPath(i, j) == TxtPath(i, j) \o ".txt"

WriteFile(f, path, content) ==
    [q \in (DOMAIN f) \cup {path} |-> IF q = path THEN content ELSE f[q]]
RemoveFile(f, path) == [q \in (DOMAIN f) \ {path} |-> f[q]]
NoFiles == [q \in {} |-> << >>]

\* what the recogniser reads off a crop: quoted text naming the crop's place,
\* followed by a newline
Recognise(rect) ==
    << " ", "'", "r" \o ToString(rect.j0), "c" \o ToString(rect.i0), "'", "\n" >>

\* ============================================================ the UI frame
\* the images the file dialog can pick
Images == {TestImage(8, 8)}
\* the rotation slider's positions
Thetas == {0, 1}
\* the command templates the user can enter: the two presets and an own one
Templates == {Tesseract, Cuneiform, Custom}
\* where the pointer can be over the plot, and how far a drag moves it
Pointers == {<< 3, 17 >>}
DragDeltas == {<< 0, 0 >>, << 0 - 8, 8 >>}

PosMin == 0 - MaxOvershoot
PosMax == One + MaxOvershoot
InRange(g) ==
    /\ \A k \in 1..Len(g.horizontals) : PosMin <= g.horizontals[k] /\ g.horizontals[k] <= PosMax
    /\ \A k \in 1..Len(g.verticals) : PosMin <= g.verticals[k] /\ g.verticals[k] <= PosMax

NoFrame == [kind |-> "none", n_dragged |-> 0, removed |-> FALSE]
Unbounded == 0 - 1

\* the `ongoing` flag TableGrid::update computes before the Extract button
Ongoing(pt) == pt.state = "Ongoing"

\* the variant that forgets to clone the command template
StageNoTemplate(pt, g, img, template) ==
    [pt EXCEPT !.task.grid = g, !.task.cim = img.rotated,
               !.task.n_tasks = (Len(g.horizontals) - 1) * (Len(g.verticals) - 1),
               !.task.ready = TRUE]

\* the clones the Extract click writes into the task
Stage(pt, g, img, template) ==
    [pt EXCEPT !.task.grid = g, !.task.cim = img.rotated,
               !.task.cmd_template = template,
               !.task.n_tasks = (Len(g.horizontals) - 1) * (Len(g.verticals) - 1),
               !.task.ready = TRUE]

\* the variant that stages whatever the state of the task
ExtractUnguarded(pt, clicked, g, img, template) ==
    IF clicked THEN Stage(pt, g, img, template) ELSE pt

\* the Extract button: shown only while the task is not Ongoing, and its
\* click reaches the task only in Starting and Finished
Extract(pt, clicked, g, img, template) ==
    IF ~Ongoing(pt) /\ clicked /\ pt.state \in {"Starting", "Finished"}
    THEN Stage(pt, g, img, template)
    ELSE pt

\* the variant that removes down to a single separator
remove_horiz_to_one(g) ==
    IF Len(g.horizontals) >= 2 THEN [g EXCEPT !.horizontals = Tail(@)] ELSE g

\* Remove horiz: horizontals.remove(0) while more than two are left
remove_horiz(g) ==
    IF Len(g.horizontals) > 2 THEN [g EXCEPT !.horizontals = Tail(@)] ELSE g
\* Remove vert: verticals.pop() while more than two are left
remove_vert(g) ==
    IF Len(g.verticals) > 2 THEN [g EXCEPT !.verticals = SubSeq(@, 1, Len(@) - 1)] ELSE g

\* BackgroundTask::inspect_mut of egui_inspect, as TableGrid::update relies on
\* it: a task that is Starting or Finished and reports Some(n) is moved to a
\* new thread running on_exec (Ongoing); an Ongoing task whose thread has ended
\* becomes Finished with the thread's result.  Whether a Finished task whose
\* ready flag is still set is started again is the library's choice (restart).
InspectTask(pt, r, restart) ==
    IF /\ pt.state \in {"Starting", "Finished"}
       /\ exec_with_expected_steps(pt.task) # << >>
       /\ (pt.state = "Finished" => restart)
    THEN [pt |-> [pt EXCEPT !.state = "Ongoing", !.result = NoResult],
          run |-> StartRun(pt.task), started |-> TRUE]
    ELSE IF pt.state = "Ongoing" /\ r.pc \in {"returned", "panicked"}
    THEN [pt |-> [pt EXCEPT !.state = "Finished",
                            !.result = IF r.pc = "returned"
                                       THEN [ok |-> TRUE, items |-> r.items]
                                       ELSE NoResult],
          run |-> NoRun, started |-> FALSE]
    ELSE [pt |-> pt, run |-> r, started |-> FALSE]

NoEvent ==
    [kind |-> "none", pointer |-> NoPointer, dd |-> << 0, 0 >>, img |-> EmptyImage,
     theta |-> 0, template |-> << >>, restart |-> FALSE]

\* TableGrid::update: one frame of the interactive loop with the input ev
Frame(ev) ==
    LET img1 == IF ev.kind = "select_image" THEN load_image(ev.img) ELSE image
        \* sort_vert, sort_horiz, update_extents
        g1 == sort_horiz(sort_vert(grid))
        extents == update_extents(g1)
        img2 == IF ev.kind = "rotate" THEN inspect_rotation(img1, ev.theta) ELSE img1
        \* Remove horiz, Remove vert, Reset grid
        g2 == IF ev.kind = "remove_horiz" THEN remove_horiz(g1)
              ELSE IF ev.kind = "remove_vert" THEN remove_vert(g1)
              ELSE IF ev.kind = "reset_grid" THEN GridDefault
              ELSE g1
        \* the command field and the presets
        tm == IF ev.kind = "template" THEN ev.template ELSE cmd_template
        \* process_task.inspect_mut
        polled == InspectTask(process_task, run, ev.restart)
        \* Extract
        pt2 == Extract(polled.pt, ev.kind = "extract", g2, img2, tm)
        \* right click, with or without shift, inside the unit square
        inside == /\ ev.pointer # NoPointer
                  /\ 0 < ev.pointer[1] /\ ev.pointer[1] < One
                  /\ 0 < ev.pointer[2] /\ ev.pointer[2] < One
        g3 == IF inside /\ ev.kind = "new_horiz"
              THEN [g2 EXCEPT !.horizontals = Append(@, ev.pointer[2])]
              ELSE IF inside /\ ev.kind = "new_vert"
              THEN [g2 EXCEPT !.verticals = Append(@, ev.pointer[1])]
              ELSE g2
        middle_held == ev.kind = "middle"
        zooming == ev.kind = "secondary"
        drag_enabled == ~(middle_held \/ zooming)
        g4 == IF middle_held THEN translate_all(g3, ev.dd) ELSE g3
        plotted == plot_inspect(g4, extents, drag_enabled, ev.pointer, ev.dd)
        editing == /\ ev.kind \notin {"none", "extract"}
                   /\ ~(ev.kind = "select_image" /\ ~image.loaded)
    IN  /\ img1.loaded
        /\ editing => edits # MaxEdits
        /\ polled.started => runs < MaxRuns
        /\ InRange(plotted.grid)
        /\ edits' = IF editing /\ edits # Unbounded THEN edits + 1 ELSE edits
        /\ image' = img2
        /\ grid' = plotted.grid
        /\ cmd_template' = tm
        /\ ss' = [extents |-> extents, drag_enabled |-> plotted.enabled]
        /\ process_task' = pt2
        /\ run' = polled.run
        /\ progress' = IF polled.started THEN 0 ELSE progress
        /\ threads' = IF polled.started THEN threads + 1 ELSE threads
        /\ runs' = IF polled.started THEN runs + 1 ELSE runs
        /\ frame' = [kind |-> ev.kind, n_dragged |-> plotted.n,
                      removed |-> ev.kind \in {"remove_horiz", "remove_vert"} /\ g2 # g1]
        /\ UNCHANGED << fs, faults, fn_vars >>

\* the library's choice matters only for a Finished task
Restarts == IF process_task.state = "Finished" THEN BOOLEAN ELSE {FALSE}

NumSeps(g) == Len(g.horizontals) + Len(g.verticals)

SelectImage ==
    \E im \in Images, rs \in Restarts :
        Frame([NoEvent EXCEPT !.kind = "select_image", !.img = im, !.restart = rs])
IdleFrame ==
    \E rs \in Restarts : Frame([NoEvent EXCEPT !.restart = rs])
RotateImage ==
    \E th \in Thetas, rs \in Restarts :
        Frame([NoEvent EXCEPT !.kind = "rotate", !.theta = th, !.restart = rs])
RemoveHoriz ==
    \E rs \in Restarts : Frame([NoEvent EXCEPT !.kind = "remove_horiz", !.restart = rs])
RemoveVert ==
    \E rs \in Restarts : Frame([NoEvent EXCEPT !.kind = "remove_vert", !.restart = rs])
ResetGrid ==
    \E rs \in Restarts : Frame([NoEvent EXCEPT !.kind = "reset_grid", !.restart = rs])
EditTemplate ==
    \E t \in Templates, rs \in Restarts :
        Frame([NoEvent EXCEPT !.kind = "template", !.template = t, !.restart = rs])
ClickExtract ==
    \E rs \in Restarts : Frame([NoEvent EXCEPT !.kind = "extract", !.restart = rs])
NewHoriz ==
    /\ NumSeps(grid) < MaxSeps
    /\ \E p \in Pointers, rs \in Restarts :
           Frame([NoEvent EXCEPT !.kind = "new_horiz", !.pointer = p, !.restart = rs])
NewVert ==
    /\ NumSeps(grid) < MaxSeps
    /\ \E p \in Pointers, rs \in Restarts :
           Frame([NoEvent EXCEPT !.kind = "new_vert", !.pointer = p, !.restart = rs])
\* the pointer over the plot, dragging with the left button or hovering
PointerDrag ==
    \E p \in Pointers, d \in DragDeltas, rs \in Restarts :
        Frame([NoEvent EXCEPT !.kind = "left", !.pointer = p, !.dd = d, !.restart = rs])
\* the middle button held: translate the whole grid
MiddleDrag ==
    \E p \in Pointers, d \in DragDeltas, rs \in Restarts :
        Frame([NoEvent EXCEPT !.kind = "middle", !.pointer = p, !.dd = d, !.restart = rs])
\* the secondary button held
SecondaryHeld ==
    \E p \in Pointers, d \in DragDeltas, rs \in Restarts :
        Frame([NoEvent EXCEPT !.kind = "secondary", !.pointer = p, !.dd = d, !.restart = rs])

\* ================================================== the thread in on_exec
\* save_img(..).unwrap(): image::save_buffer creates the file and encodes the
\* buffer as PNG; the encoder refuses a width or height of zero, and creating
\* or writing the file can fail (io_ok); the closure unwraps the result
save_img(f, size, path, io_ok) ==
    IF ~io_ok THEN [ok |-> FALSE, panic |-> TRUE, fs |-> f]
    ELSE IF size[1] = 0 \/ size[2] = 0
    THEN [ok |-> FALSE, panic |-> TRUE, fs |-> WriteFile(f, path, << 0, 0 >>)]
    ELSE [ok |-> TRUE, panic |-> FALSE, fs |-> WriteFile(f, path, size)]

SetJob(r, n, jb) == [r EXCEPT !.jobs[n] = jb]

\* the outcomes a system call can have: failure only where faults are on
Outcomes == IF faults THEN BOOLEAN ELSE {TRUE}

\* the closure up to spawn(): crop, save the crop, build the command, spawn
JobSpawn(n) ==
    /\ run.pc = "running"
    /\ n \in 1..Len(run.jobs)
    /\ run.jobs[n].pc = "queued"
    /\ \E io_ok \in Outcomes, spawn_ok \in Outcomes :
        LET jb == run.jobs[n]
            task == process_task.task
            crop == crop_buffer(task.cim, jb.vw[1], jb.vw[2], jb.hw[1], jb.hw[2])
            rect == [i0 |-> crop.i0, i1 |-> crop.i1, j0 |-> crop.j0, j1 |-> crop.j1]
            saved == save_img(fs, crop.size, ImgPath(jb.i, jb.j), io_ok)
            cmd == Materialize(task.cmd_template, ImgPath(jb.i, jb.j), TxtPath(jb.i, jb.j))
        IN  IF crop.underflow \/ crop.oob
            THEN /\ run' = SetJob(run, n, [jb EXCEPT !.pc = "panicked"])
                 /\ fs' = fs
            ELSE IF saved.panic \/ (saved.ok /\ cmd = << >>)
            THEN /\ run' = SetJob(run, n, [jb EXCEPT !.pc = "panicked", !.rect = rect])
                 /\ fs' = saved.fs
            ELSE IF ~saved.ok \/ ~spawn_ok
            THEN /\ run' = SetJob(run, n, [jb EXCEPT !.pc = "err", !.rect = rect])
                 /\ fs' = saved.fs
            ELSE /\ run' = SetJob(run, n, [jb EXCEPT !.pc = "spawned", !.rect = rect])
                 /\ fs' = saved.fs
    /\ UNCHANGED << ui_vars, process_task, progress, threads, runs, faults, fn_vars >>

\* the external recogniser, between spawn() and the return of wait(): it may
\* or may not write its output file, and exits with status 0 or 1
RunProcess(f, cmd, rect, wrote) ==
    IF wrote THEN WriteFile(f, OutputFileOf(cmd), Recognise(rect)) ELSE f

\* the closure from handle.wait() on: wait for the recogniser, read the text,
\* remove both temp files, clean the text, count the job
JobCollect(n) ==
    /\ run.pc = "running"
    /\ n \in 1..Len(run.jobs)
    /\ run.jobs[n].pc = "spawned"
    /\ \E wrote \in BOOLEAN, status \in {0, 1}, wait_ok \in Outcomes,
          rm_img_ok \in Outcomes, rm_txt_ok \in Outcomes :
        LET jb == [run.jobs[n] EXCEPT !.exit = status]
            img_path == ImgPath(jb.i, jb.j)
            txt_path == ReadPath(jb.i, jb.j)
            cmd == Materialize(process_task.task.cmd_template, img_path, TxtPath(jb.i, jb.j))
            fs1 == RunProcess(fs, cmd, jb.rect, wrote)
            failed == [jb EXCEPT !.pc = "err"]
        IN  IF ~wait_ok \/ txt_path \notin DOMAIN fs1
            THEN /\ run' = SetJob(run, n, failed)
                 /\ fs' = fs1
                 /\ UNCHANGED progress
            ELSE IF ~rm_img_ok \/ img_path \notin DOMAIN fs1
            THEN /\ run' = SetJob(run, n, failed)
                 /\ fs' = fs1
                 /\ UNCHANGED progress
            ELSE IF ~rm_txt_ok
            THEN /\ run' = SetJob(run, n, failed)
                 /\ fs' = RemoveFile(fs1, img_path)
                 /\ UNCHANGED progress
            ELSE /\ run' = SetJob(run, n,
                        [jb EXCEPT !.pc = "ok",
                                   !.text = Clean(fs1[txt_path],
                                                  process_task.task.cleaning_options)])
                 /\ fs' = RemoveFile(RemoveFile(fs1, img_path), txt_path)
                 /\ progress' = progress + 1
    /\ UNCHANGED << ui_vars, process_task, threads, runs, faults, fn_vars >>

\* the orders in which collect() can deliver the results of the jobs in S:
\* par_bridge keeps no order
RECURSIVE OrdersOf(_)
OrdersOf(S) ==
    IF S = {} THEN {<< >>}
    ELSE UNION {{<< x >> \o o : o \in OrdersOf(S \ {x})} : x \in S}
Orders(n) == OrdersOf(1..n)

\* `for res in out_flat`: Ok((i, j, s)) sets items[i][j], Err is only logged
RECURSIVE Assemble(_, _, _, _)
Assemble(items, jobs, order, k) ==
    IF k > Len(jobs) THEN items
    ELSE LET jb == jobs[order[k]]
         IN  IF jb.pc = "ok"
             THEN Assemble([items EXCEPT ![jb.i + 1][jb.j + 1] = jb.text], jobs, order, k + 1)
             ELSE Assemble(items, jobs, order, k + 1)

\* every closure has returned: the table is filled and on_exec returns it
OnExecReturn ==
    /\ run.pc = "running"
    /\ \A n \in 1..Len(run.jobs) : run.jobs[n].pc \in {"ok", "err"}
    /\ \E order \in Orders(Len(run.jobs)) :
           run' = [run EXCEPT !.pc = "returned",
                              !.items = Assemble(run.items, run.jobs, order, 1)]
    /\ threads' = threads - 1
    /\ UNCHANGED << ui_vars, process_task, progress, runs, fs, faults, fn_vars >>

\* a closure has panicked: once no closure is under way the panic leaves
\* on_exec and ends the thread; closures not yet begun may never run
OnExecPanic ==
    /\ run.pc = "running"
    /\ \E n \in 1..Len(run.jobs) : run.jobs[n].pc = "panicked"
    /\ \A n \in 1..Len(run.jobs) : run.jobs[n].pc # "spawned"
    /\ run' = [run EXCEPT !.pc = "panicked"]
    /\ threads' = threads - 1
    /\ UNCHANGED << ui_vars, process_task, progress, runs, fs, faults, fn_vars >>

\* ============================================================ specification
FnIdle ==
    /\ raw_text = << >>
    /\ co = DefaultCleaningOptions
    /\ ocr_out = << >>
    /\ crop_in = NoCropIn
    /\ crop_out = NoCropOut
    /\ fn_pc = "idle"

NoExtents == [xmin |-> 0, xmax |-> 0, ymin |-> 0, ymax |-> 0]

\* TableGrid::default and SharedState::default, no file under /tmp yet
AppStart ==
    /\ image = NoImage
    /\ grid = GridDefault
    /\ cmd_template = Tesseract
    /\ ss = [extents |-> NoExtents, drag_enabled |-> FALSE]
    /\ process_task = [state |-> "Starting", task |-> TaskDefault, result |-> NoResult]
    /\ run = NoRun
    /\ progress = 0
    /\ threads = 0
    /\ runs = 0
    /\ fs = NoFiles
    /\ frame = NoFrame

\* a session in which system calls succeed and editing inputs are counted
AppInit ==
    /\ AppStart
    /\ faults = FALSE
    /\ edits = 0

\* the whole application: every input of the UI and every step of the thread
Init == AppInit /\ FnIdle

ThreadStep ==
    \/ \E n \in 1..Len(run.jobs) : JobSpawn(n)
    \/ \E n \in 1..Len(run.jobs) : JobCollect(n)
    \/ OnExecReturn
    \/ OnExecPanic

Next ==
    \/ SelectImage
    \/ IdleFrame
    \/ RotateImage
    \/ RemoveHoriz
    \/ RemoveVert
    \/ ResetGrid
    \/ EditTemplate
    \/ ClickExtract
    \/ NewHoriz
    \/ NewVert
    \/ PointerDrag
    \/ MiddleDrag
    \/ SecondaryHeld
    \/ ThreadStep

Spec == Init /\ [][Next]_vars

\* the grid editor alone: every input of the UI but the Extract click, with
\* no cap on the number of edits
InitGrid ==
    /\ AppStart
    /\ faults = FALSE
    /\ edits = Unbounded
    /\ FnIdle

NextGrid ==
    \/ SelectImage
    \/ IdleFrame
    \/ RotateImage
    \/ RemoveHoriz
    \/ RemoveVert
    \/ ResetGrid
    \/ EditTemplate
    \/ NewHoriz
    \/ NewVert
    \/ PointerDrag
    \/ MiddleDrag
    \/ SecondaryHeld

SpecGrid == InitGrid /\ [][NextGrid]_vars

\* one run of on_exec with system calls that can fail: the thread has just
\* been started on a snapshot an Extract click staged
RunGrids ==
    {GridDefault,
     [horizontals |-> << 4, 12, 16 >>, verticals |-> << 2, 4 >>],
     [horizontals |-> << 16, 18 >>, verticals |-> << 10, 10 >>],
     [horizontals |-> << 16, 17 >>, verticals |-> << 2, 4 >>],
     [horizontals |-> << 0 - 5, 25 >>, verticals |-> << 0 - 5, 10 >>]}
\* the example table of three rows and two columns
ExampleGrid == [horizontals |-> << 4, 8, 12, 16 >>, verticals |-> << 4, 8, 16 >>]
\* the command field can also be left empty
RunTemplates == Templates \cup {<< >>}

InitRun ==
    /\ \E g \in RunGrids \cup {ExampleGrid}, im \in Images, tm \in RunTemplates, f \in BOOLEAN :
        LET img == load_image(im)
            staged == Extract([state |-> "Starting", task |-> TaskDefault,
                               result |-> NoResult], TRUE, g, img, tm)
            polled == InspectTask(staged, NoRun, FALSE)
        IN  /\ g = ExampleGrid => (~f /\ tm = Tesseract)
            /\ image = img
            /\ grid = g
            /\ cmd_template = tm
            /\ ss = [extents |-> update_extents(g), drag_enabled |-> TRUE]
            /\ process_task = polled.pt
            /\ run = polled.run
            /\ faults = f
    /\ progress = 0
    /\ threads = 1
    /\ runs = MaxRuns
    /\ fs = NoFiles
    /\ frame = NoFrame
    /\ edits = Unbounded
    /\ FnIdle

NextRun ==
    \/ ThreadStep
    \/ IdleFrame

SpecRun == InitRun /\ [][NextRun]_vars

\* ======================================================= pure-function specs
Alphabet == {" ", "'", "LSQ", "\"", "\n", "a"}
RawTexts == UNION {[1..n -> Alphabet] : n \in 0..MaxLen}
ExampleRaw == << " ", "'", "h", "e", "l", "l", "o", " ", "w", "o", "r", "l", "d", "'", "\n" >>
ExampleClean == << "h", "e", "l", "l", "o", " ", "w", "o", "r", "l", "d" >>

CropCoords == {c \in (0 - MaxOvershoot)..(One + MaxOvershoot) : c % 5 = 0}
CropInputs ==
    [cim : {TestImage(w, t) : w \in 0..MaxSide, t \in 0..MaxSide},
     x1 : CropCoords, x2 : CropCoords, y1 : CropCoords, y2 : CropCoords]
\* map(0.25, 0.75, 0.0, 1.0) on a 400x200 image
ExampleCrop == [cim |-> TestImage(400, 200), x1 |-> 5, x2 |-> 15, y1 |-> 0, y2 |-> One]

InitClean ==
    /\ raw_text \in RawTexts \cup {ExampleRaw}
    /\ co \in CleaningOptions
    /\ ocr_out = << >>
    /\ crop_in = NoCropIn
    /\ crop_out = NoCropOut
    /\ fn_pc = "in"
    /\ AppInit

\* the job closure's cleaning of the text it read
CleanText ==
    /\ fn_pc = "in"
    /\ fn_pc' = "out"
    /\ ocr_out' = Clean(raw_text, co)
    /\ UNCHANGED << raw_text, co, crop_vars, app_vars >>

NextClean == CleanText
SpecClean == InitClean /\ [][NextClean]_vars

InitCrop ==
    /\ crop_in \in CropInputs \cup {ExampleCrop}
    /\ crop_out = NoCropOut
    /\ raw_text = << >>
    /\ co = DefaultCleaningOptions
    /\ ocr_out = << >>
    /\ fn_pc = "in"
    /\ AppInit

CropBuffer ==
    /\ fn_pc = "in"
    /\ fn_pc' = "out"
    /\ crop_out' = crop_buffer(crop_in.cim, crop_in.x1, crop_in.x2, crop_in.y1, crop_in.y2)
    /\ UNCHANGED << crop_in, clean_vars, app_vars >>

NextCrop == CropBuffer
SpecCrop == InitCrop /\ [][NextCrop]_vars

\* ------------------------------------------------------------ claims C7, C8
\* C7: for every image size and every x1, x2, y1, y2 (also below 0 and above
\* 1) crop_buffer reads only pixels (i, j) with 0 <= i < W and 0 <= j < T, with
\* i0 <= i1 <= W and j0 <= j1 <= T: no index leaves the pixel buffer and the
\* size subtraction does not underflow.
C7_CropStaysInBuffer ==
    fn_pc = "out" =>
        LET w == crop_in.cim.size[1]
            t == crop_in.cim.size[2]
        IN  /\ ~crop_out.underflow
            /\ ~crop_out.oob
            /\ 0 <= crop_out.i0 /\ crop_out.i0 <= crop_out.i1 /\ crop_out.i1 <= w
            /\ 0 <= crop_out.j0 /\ crop_out.j0 <= crop_out.j1 /\ crop_out.j1 <= t
            /\ \A r \in crop_out.reads :
                   /\ 0 <= r[1] /\ r[1] < w
                   /\ 0 <= r[2] /\ r[2] < t

\* a crop whose rectangle overshoots [0, 1] on both axes and still reads pixels
C7_Witness ==
    /\ fn_pc = "out"
    /\ Min2(crop_in.x1, crop_in.x2) < 0 /\ Max2(crop_in.x1, crop_in.x2) > One
    /\ Min2(crop_in.y1, crop_in.y2) < 0 /\ Max2(crop_in.y1, crop_in.y2) > One
    /\ crop_out.reads # {}

\* the rectangle the claim names: every coordinate clamped first, then ordered
ClaimedRect(in) ==
    LET w == in.cim.size[1]
        t == in.cim.size[2]
        cx1 == Min2(Max2(in.x1, 0), One)
        cx2 == Min2(Max2(in.x2, 0), One)
        cy1 == Min2(Max2(in.y1, 0), One)
        cy2 == Min2(Max2(in.y2, 0), One)
    IN  [c0 |-> (Min2(cx1, cx2) * w) \div One, c1 |-> (Max2(cx1, cx2) * w) \div One,
         r0 |-> ((One - Max2(cy1, cy2)) * t) \div One,
         r1 |-> ((One - Min2(cy1, cy2)) * t) \div One]

\* the pixels of a rectangle, row-major, four bytes per pixel, by position
ClaimedBytes(in) ==
    LET rc == ClaimedRect(in)
        cw == rc.c1 - rc.c0
        ch == rc.r1 - rc.r0
        px == Pixels(in.cim)
    IN  [k \in 1..(4 * cw * ch) |->
            LET p == (k - 1) \div 4
                row == rc.r0 + (p \div cw)
                col == rc.c0 + (p % cw)
            IN  px[row * in.cim.size[1] + col + 1][((k - 1) % 4) + 1]]

SwapX(in) == [in EXCEPT !.x1 = in.x2, !.x2 = in.x1]
SwapY(in) == [in EXCEPT !.y1 = in.y2, !.y2 = in.y1]
CropOf(in) == crop_buffer(in.cim, in.x1, in.x2, in.y1, in.y2)

\* C8: crop_buffer extracts exactly the pixels in columns
\* [floor(min(x1,x2)*W), floor(max(x1,x2)*W)) and rows
\* [floor((1-max(y1,y2))*T), floor((1-min(y1,y2))*T)), coordinates clamped to
\* [0,1], row-major with 4 bytes per pixel; swapping x1 with x2 or y1 with y2
\* changes nothing; (0.25, 0.75, 0.0, 1.0) on 400x200 gives columns [100,300)
\* and rows [0,200).
C8_CropIsClaimedRect ==
    fn_pc = "out" =>
        /\ crop_out.i0 = ClaimedRect(crop_in).c0 /\ crop_out.i1 = ClaimedRect(crop_in).c1
        /\ crop_out.j0 = ClaimedRect(crop_in).r0 /\ crop_out.j1 = ClaimedRect(crop_in).r1
        /\ crop_out.out = ClaimedBytes(crop_in)
        /\ crop_out.size = << ClaimedRect(crop_in).c1 - ClaimedRect(crop_in).c0,
                              ClaimedRect(crop_in).r1 - ClaimedRect(crop_in).r0 >>
        /\ crop_in # ExampleCrop =>
              /\ CropOf(SwapX(crop_in)) = crop_out
              /\ CropOf(SwapY(crop_in)) = crop_out
        /\ crop_in = ExampleCrop =>
              /\ crop_out.i0 = 100 /\ crop_out.i1 = 300
              /\ crop_out.j0 = 0 /\ crop_out.j1 = 200
              /\ Len(crop_out.out) = 4 * 200 * 200

\* the 400x200 example has been cropped
C8_WitnessExample ==
    /\ fn_pc = "out"
    /\ crop_in = ExampleCrop
    /\ crop_out.size = << 200, 200 >>

\* a crop with reversed endpoints on both axes that yields pixels
C8_Witness ==
    /\ fn_pc = "out"
    /\ crop_in.x1 > crop_in.x2 /\ crop_in.y1 > crop_in.y2
    /\ crop_out.out # << >>

\* ------------------------------------------------------------ claims C3, C4
\* C3: while the background task is Ongoing no UI event (clicking Extract,
\* editing the grid or the command template) changes the in-flight task's
\* grid, pixel buffer, command template or job count, and at no time do two
\* runs execute concurrently.
C3_InFlightTaskUntouched ==
    [][/\ (process_task.state = "Ongoing" /\ process_task'.state = "Ongoing") =>
              /\ process_task'.task.grid = process_task.task.grid
              /\ process_task'.task.cim = process_task.task.cim
              /\ process_task'.task.cmd_template = process_task.task.cmd_template
              /\ process_task'.task.n_tasks = process_task.task.n_tasks
       /\ threads <= 1 /\ threads' <= 1]_vars

\* Extract is clicked while a run is under way, after the grid and the
\* command template were edited away from the staged ones
C3_Witness ==
    /\ process_task.state = "Ongoing"
    /\ frame.kind = "extract"
    /\ threads = 1
    /\ \E n \in 1..Len(run.jobs) : run.jobs[n].pc = "spawned"
    /\ grid # process_task.task.grid
    /\ cmd_template # process_task.task.cmd_template

\* C4: after any sequence of add, remove and reset events from the default
\* grid there are at least 2 horizontal and at least 2 vertical separators; a
\* remove on a sequence of exactly 2 members leaves the grid as it was (as the
\* frame's sorting has it).
C4_AtLeastTwoSeparators ==
    [][/\ Len(grid'.horizontals) >= 2 /\ Len(grid'.verticals) >= 2
       /\ (frame'.kind = "remove_horiz" /\ Len(grid.horizontals) = 2) =>
              grid' = sort_horiz(sort_vert(grid))
       /\ (frame'.kind = "remove_vert" /\ Len(grid.verticals) = 2) =>
              grid' = sort_horiz(sort_vert(grid))]_vars

\* Remove horiz was clicked on two horizontals, next to three verticals
C4_Witness ==
    /\ frame.kind = "remove_horiz" /\ ~frame.removed
    /\ Len(grid.horizontals) = 2
    /\ Len(grid.verticals) = 3

\* Remove vert was clicked on two verticals after a separator was removed
C4_WitnessVert ==
    /\ frame.kind = "remove_vert" /\ ~frame.removed
    /\ Len(grid.verticals) = 2
    /\ Len(grid.horizontals) = 3

\* ------------------------------------------------- claims C1, C2, C5, C6, C9
\* the cell of a table that belongs to a job
Cell(items, jb) == items[jb.i + 1][jb.j + 1]
ThreadEnded == run.pc \in {"returned", "panicked"}
StagedH == Len(process_task.task.grid.horizontals)
StagedV == Len(process_task.task.grid.verticals)
HasShape(items, rows, cols) ==
    /\ Len(items) = rows
    /\ \A r \in 1..Len(items) : Len(items[r]) = cols
Degenerate(rect) == rect.i0 = rect.i1 \/ rect.j0 = rect.j1

\* C1: a failure in a job's steps 2-5 (persisting the crop image, spawning the
\* command, waiting for exit, reading the output text, deleting the temp
\* files) fails only that job: every sibling job still resolves, the run still
\* finishes with a table, and the failed job's cell holds the empty string.
C1_JobFailureIsContained ==
    (/\ ThreadEnded
     /\ process_task.task.cmd_template # << >>
     /\ \A n \in 1..Len(run.jobs) :
            run.jobs[n].pc # "queued" => ~Degenerate(run.jobs[n].rect)) =>
        /\ run.pc = "returned"
        /\ \A n \in 1..Len(run.jobs) :
               /\ run.jobs[n].pc \in {"ok", "err"}
               /\ run.jobs[n].pc = "err" => Cell(run.items, run.jobs[n]) = << >>

\* C2: when exactly one job's process exits with a non-zero status and every
\* other job succeeds, the table has the empty string at exactly that job's
\* cell and the recognised text in every other cell, whatever file exists at
\* the expected output path.
C2_NonZeroExitLeavesCellEmpty ==
    run.pc = "returned" =>
        LET nonzero == {n \in 1..Len(run.jobs) : run.jobs[n].exit = 1}
        IN  (/\ Cardinality(nonzero) = 1
             /\ \A n \in (1..Len(run.jobs)) \ nonzero :
                    run.jobs[n].pc = "ok" /\ run.jobs[n].exit = 0) =>
                \A n \in 1..Len(run.jobs) :
                    Cell(run.items, run.jobs[n]) =
                        IF n \in nonzero THEN << >>
                        ELSE Clean(Recognise(run.jobs[n].rect),
                                   process_task.task.cleaning_options)

\* C5: the table on_exec returns has exactly H-1 rows of exactly V-1 columns,
\* H and V the numbers of horizontal and vertical separators of the snapshot
\* staged for the run (H=4, V=3: 3 rows, 2 columns), whether jobs succeed or
\* fail.
C5_TableShape ==
    /\ run.pc = "returned" => HasShape(run.items, StagedH - 1, StagedV - 1)
    /\ (process_task.state = "Finished" /\ process_task.result.ok) =>
           HasShape(process_task.result.items, StagedH - 1, StagedV - 1)

\* the example snapshot has produced its table of 3 rows and 2 columns, one
\* job having failed and one having succeeded
C5_Witness ==
    /\ process_task.state = "Finished" /\ process_task.result.ok
    /\ process_task.task.grid = ExampleGrid
    /\ HasShape(process_task.result.items, 3, 2)
    /\ process_task.result.items[1][1] = << >>
    /\ process_task.result.items[3][2] # << >>

\* C6: in a run on a sorted snapshot the job with row index i crops the gap
\* between the (H-2-i)-th and (H-1-i)-th horizontal separators in ascending
\* order (row 0 has the largest y, the top of the image; rows go top to
\* bottom), and the job with column index j crops the gap between the j-th and
\* (j+1)-th vertical separators (column 0 is left-most).
C6_RowsTopDownColumnsLeftRight ==
    run.pc \in {"running", "returned"} =>
        LET g == process_task.task.grid
            cropped == {n \in 1..Len(run.jobs) : run.jobs[n].pc # "queued"}
        IN  /\ Len(run.jobs) = (StagedH - 1) * (StagedV - 1)
            /\ \A n \in 1..Len(run.jobs) :
                   LET jb == run.jobs[n]
                   IN  /\ jb.i \in 0..(StagedH - 2) /\ jb.j \in 0..(StagedV - 2)
                       /\ jb.hw = << g.horizontals[StagedH - 1 - jb.i],
                                     g.horizontals[StagedH - jb.i] >>
                       /\ jb.vw = << g.verticals[jb.j + 1], g.verticals[jb.j + 2] >>
            /\ \A n, m \in 1..Len(run.jobs) :
                   (run.jobs[n].i = run.jobs[m].i /\ run.jobs[n].j = run.jobs[m].j) => n = m
            /\ \A n \in cropped :
                   LET jb == run.jobs[n]
                       rc == ClaimedRect([cim |-> process_task.task.cim,
                                          x1 |-> g.verticals[jb.j + 1],
                                          x2 |-> g.verticals[jb.j + 2],
                                          y1 |-> g.horizontals[StagedH - 1 - jb.i],
                                          y2 |-> g.horizontals[StagedH - jb.i]])
                   IN  jb.rect = [i0 |-> rc.c0, i1 |-> rc.c1, j0 |-> rc.r0, j1 |-> rc.r1]
            /\ \A n, m \in cropped :
                   /\ run.jobs[n].i < run.jobs[m].i => run.jobs[n].rect.j0 <= run.jobs[m].rect.j0
                   /\ run.jobs[n].j < run.jobs[m].j => run.jobs[n].rect.i0 <= run.jobs[m].rect.i0

\* the example snapshot has been cropped: row 0 took the top gap of the image,
\* row 2 the bottom gap, column 1 the right gap
C6_Witness ==
    /\ run.pc = "returned"
    /\ process_task.task.grid = ExampleGrid
    /\ \E n, m \in 1..Len(run.jobs) :
           /\ run.jobs[n].i = 0 /\ run.jobs[n].j = 0 /\ run.jobs[n].pc = "ok"
           /\ run.jobs[n].hw = << 12, 16 >> /\ run.jobs[n].rect.j0 = 1
           /\ run.jobs[m].i = 2 /\ run.jobs[m].j = 1 /\ run.jobs[m].pc = "ok"
           /\ run.jobs[m].hw = << 4, 8 >> /\ run.jobs[m].rect.j0 = 4
           /\ run.jobs[m].vw = << 8, 16 >> /\ run.jobs[m].rect.i0 = 3

\* C9: a degenerate cell rectangle (i0 = i1 or j0 = j1) is a valid empty crop:
\* the job handling it raises no error and does not abort the run.
C9_DegenerateCropIsValid ==
    (~faults /\ process_task.task.cmd_template # << >>) =>
        \A n \in 1..Len(run.jobs) :
            (run.jobs[n].pc # "queued" /\ Degenerate(run.jobs[n].rect)) =>
                /\ run.jobs[n].pc # "panicked"
                /\ run.pc # "panicked"

\* ---------------------------------------------------------------- claim C10
\* the cleaning the claim describes: one trim of outer single-quote characters
\* of either kind
ClaimedClean(raw, o) ==
    LET s1 == IF o.trim_whitespace THEN TrimMatches(raw, Whitespace) ELSE raw
        s2 == IF o.trim_single_quote THEN TrimMatches(s1, {"'", "LSQ"}) ELSE s1
        s3 == IF o.trim_double_quote THEN TrimMatches(s2, {"\""}) ELSE s2
    IN  IF o.no_newlines THEN SelectSeq(s3, LAMBDA c : c # "\n") ELSE s3

\* C10: the cleaned text is the raw text after, in this order and each only
\* when enabled: trim outer whitespace, trim outer single-quote characters
\* (apostrophe and left-single-quote glyph), trim outer double quotes, delete
\* every newline; the example yields hello world; with no_newlines the output
\* has no newline.
C10_CleanIsClaimed ==
    fn_pc = "out" =>
        /\ ocr_out = ClaimedClean(raw_text, co)
        /\ (raw_text = ExampleRaw /\ co = DefaultCleaningOptions) => ocr_out = ExampleClean
        /\ co.no_newlines => \A k \in 1..Len(ocr_out) : ocr_out[k] # "\n"

\* --------------------------------------------------------------- claim C11
NonDecreasing(s) == \A k \in 1..(Len(s) - 1) : s[k] <= s[k + 1]
Members(s) == {s[k] : k \in 1..Len(s)}
Occurrences(s, x) == Cardinality({k \in 1..Len(s) : s[k] = x})
IsPermutation(s, t) ==
    /\ Len(s) = Len(t)
    /\ \A x \in Members(s) \cup Members(t) : Occurrences(s, x) = Occurrences(t, x)

\* C11: after sort_horiz and sort_vert both sequences are non-decreasing by
\* position and a permutation of what they were, and the extents that
\* update_extents computes right after have xmin <= xmax and ymin <= ymax and
\* are the smallest and largest separator position of each axis.
C11_SortedThenExtents ==
    [][LET sorted == sort_horiz(sort_vert(grid))
       IN  /\ NonDecreasing(sorted.horizontals)
           /\ NonDecreasing(sorted.verticals)
           /\ IsPermutation(sorted.horizontals, grid.horizontals)
           /\ IsPermutation(sorted.verticals, grid.verticals)
           /\ ss'.extents = update_extents(sorted)
           /\ ss'.extents.xmin <= ss'.extents.xmax
           /\ ss'.extents.ymin <= ss'.extents.ymax
           /\ ss'.extents.xmin = SetMin(Members(grid.verticals))
           /\ ss'.extents.xmax = SetMax(Members(grid.verticals))
           /\ ss'.extents.ymin = SetMin(Members(grid.horizontals))
           /\ ss'.extents.ymax = SetMax(Members(grid.horizontals))]_vars

\* a frame has sorted a horizontal that was added behind a larger one, and a
\* vertical that is out of order is left for the next frame to sort
C11_Witness ==
    /\ grid.horizontals = << 16, 17, 18 >>
    /\ ss.extents.ymin = 16 /\ ss.extents.ymax = 18
    /\ \E k \in 1..(Len(grid.verticals) - 1) : grid.verticals[k] > grid.verticals[k + 1]

\* --------------------------------------------------------------- claim C13
\* C13: a run cannot start before parameters have been staged: as long as
\* Extract has never been clicked with an image loaded,
\* exec_with_expected_steps returns None and on_exec is never executed on the
\* default grid, the empty pixel buffer and the empty command template.
C13_NoRunBeforeStaging ==
    /\ ~process_task.task.ready =>
           /\ exec_with_expected_steps(process_task.task) = << >>
           /\ process_task.state = "Starting"
           /\ process_task.task = TaskDefault
           /\ runs = 0 /\ threads = 0 /\ run = NoRun
    /\ run.pc # "idle" =>
           /\ process_task.task.ready
           /\ process_task.task.cim # EmptyImage
           /\ process_task.task.cim \in {inspect_rotation(load_image(im), th).rotated :
                                            im \in Images, th \in Thetas}

\* frames have polled the task over an edited grid and a loaded image without
\* any Extract click
C13_Witness ==
    /\ ~process_task.task.ready
    /\ image.loaded
    /\ edits = MaxEdits
    /\ grid # GridDefault
    /\ frame.kind = "none"

\* --------------------------------------------------------- claims C19, C20
\* the parameters an Extract click stages
Staged(pt) ==
    << pt.task.grid, pt.task.cim, pt.task.cmd_template, pt.task.n_tasks >>

\* C19: clicking Extract copies the current grid, rotated pixel buffer and
\* command template into the task; any later edit (add, remove, drag,
\* translate-all, reset, rotation, template edit), before or during the run,
\* leaves the staged copies as they are, so the run's cells and table shape
\* are those of the grid as it was at the Extract click.
C19_SnapshotAtExtract ==
    [][/\ (frame'.kind = "extract" /\ process_task'.state # "Ongoing") =>
              Staged(process_task') =
                  << sort_horiz(sort_vert(grid)), image.rotated, cmd_template,
                     (Len(grid.horizontals) - 1) * (Len(grid.verticals) - 1) >>
       /\ frame'.kind # "extract" => Staged(process_task') = Staged(process_task)
       /\ run'.pc = "running" =>
              /\ Len(run'.jobs) = process_task'.task.n_tasks
              /\ HasShape(run'.items, Len(process_task'.task.grid.horizontals) - 1,
                                      Len(process_task'.task.grid.verticals) - 1)
              /\ \A n \in 1..Len(run'.jobs) :
                     /\ run'.jobs[n].hw \in Members(Windows2(process_task'.task.grid.horizontals))
                     /\ run'.jobs[n].vw \in Members(Windows2(process_task'.task.grid.verticals))]_vars

\* a vertical separator is removed during a run that was staged with three:
\* the run keeps its two cells
C19_Witness ==
    /\ process_task.state = "Ongoing"
    /\ frame.kind = "remove_vert" /\ frame.removed
    /\ Len(process_task.task.grid.verticals) = 3
    /\ Len(grid.verticals) = 2
    /\ Len(run.jobs) = 2

\* C20: whenever on_exec derives cell geometry the separator sequences it
\* uses are sorted ascending: after any frames of adds, removes, drags,
\* translate-all and reset followed by an Extract click, the staged snapshot
\* has non-decreasing horizontals and verticals, although on_exec does not
\* sort.
C20_StagedSnapshotSorted ==
    /\ process_task.task.ready =>
           /\ NonDecreasing(process_task.task.grid.horizontals)
           /\ NonDecreasing(process_task.task.grid.verticals)
    /\ \A n \in 1..Len(run.jobs) :
           /\ run.jobs[n].hw[1] <= run.jobs[n].hw[2]
           /\ run.jobs[n].vw[1] <= run.jobs[n].vw[2]

\* a run works on a snapshot staged right after a horizontal was added
\* behind a larger one
C20_Witness ==
    /\ run.pc = "running"
    /\ process_task.task.grid.horizontals = << 16, 17, 18 >>
    /\ \E n \in 1..Len(run.jobs) : run.jobs[n].pc # "queued"

\* ------------------------------------------- claims C12, C14, C15, C16
\* C12: every run that enters Running reaches Finished, and the Finished
\* state holds an assembled table (with empty cells for failed jobs); there
\* is no other exit from Running.
C12_FinishedHoldsTable ==
    /\ process_task.state = "Finished" =>
           /\ process_task.result.ok
           /\ HasShape(process_task.result.items, StagedH - 1, StagedV - 1)
    /\ (ThreadEnded /\ process_task.state # "Finished") =>
           process_task.state = "Ongoing"

\* C14: during a run with expected job count N the progress counter never
\* exceeds N and is incremented exactly once for each job that resolves,
\* whether the job succeeded or failed, so that all N jobs have contributed
\* an increment by the time the run is Finished.
C14_ProgressCountsResolvedJobs ==
    run.pc \in {"running", "returned"} =>
        /\ progress <= process_task.task.n_tasks
        /\ progress = Cardinality({n \in 1..Len(run.jobs) : run.jobs[n].pc \in {"ok", "err"}})
        /\ run.pc = "returned" => progress = process_task.task.n_tasks

\* C15: for every job whose crop image was written and whose process was
\* waited for, the temporary crop image and the temporary output text file
\* are both deleted by the time the job resolves, whether reading the output
\* text succeeded or failed; no temp file of a run remains once it has ended.
C15_TempFilesRemoved ==
    ~faults =>
        /\ \A n \in 1..Len(run.jobs) :
               (run.jobs[n].pc \in {"ok", "err"} /\ run.jobs[n].exit # 0 - 1) =>
                   /\ ImgPath(run.jobs[n].i, run.jobs[n].j) \notin DOMAIN fs
                   /\ ReadPath(run.jobs[n].i, run.jobs[n].j) \notin DOMAIN fs
        /\ run.pc = "returned" => fs = NoFiles

\* C16: a job succeeds in reading the recogniser's output when the process
\* wrote it either to the literal path substituted for %txt_out% or to that
\* path with .txt appended; both presets and a custom template that writes
\* exactly to %txt_out% give a populated cell.
C16_ReadsEitherOutputPath ==
    ~faults =>
        \A n \in 1..Len(run.jobs) :
            (/\ run.jobs[n].pc \in {"ok", "err"}
             /\ run.jobs[n].exit # 0 - 1
             /\ \/ TxtPath(run.jobs[n].i, run.jobs[n].j) \in DOMAIN fs
                \/ run.jobs[n].pc = "ok") =>
                /\ run.jobs[n].pc = "ok"
                /\ run.jobs[n].text # << >>
                /\ run.pc = "returned" => Cell(run.items, run.jobs[n]) # << >>

\* ------------------------------------------------------ claims C17, C18
JobsAt(r, c) == {n \in 1..Len(run.jobs) : run.jobs[n].i = r /\ run.jobs[n].j = c}

\* C17: the table of a run is the same for every interleaving of its jobs and
\* every order in which their results are collected: each successful job
\* writes only its own cell (i, j), no two jobs write the same cell, and the
\* cells of failed jobs stay empty.
C17_TableIndependentOfOrder ==
    /\ run.pc \in {"running", "returned"} =>
           \A r \in 0..(StagedH - 2), c \in 0..(StagedV - 2) :
               Cardinality(JobsAt(r, c)) = 1
    /\ run.pc = "returned" =>
           \A n \in 1..Len(run.jobs) :
               Cell(run.items, run.jobs[n]) =
                   IF run.jobs[n].pc = "ok"
                   THEN Clean(Recognise(run.jobs[n].rect),
                              process_task.task.cleaning_options)
                   ELSE << >>

C17_Witness ==
    /\ run.pc = "returned"
    /\ process_task.task.grid.horizontals = << 4, 12, 16 >>
    /\ Len(run.jobs) = 2
    /\ run.jobs[1].pc = "err" /\ run.jobs[2].pc = "ok"
    /\ run.items[1][1] = << >> /\ run.items[2][1] # << >>

JobPaths(n) ==
    {ImgPath(run.jobs[n].i, run.jobs[n].j),
     TxtPath(run.jobs[n].i, run.jobs[n].j),
     ReadPath(run.jobs[n].i, run.jobs[n].j)}

\* C18: within one run distinct jobs use different crop image paths and
\* different output text paths, and no image path equals any text path, so
\* every temp file belongs to exactly one job.
C18_TempPathsDistinct ==
    /\ \A n, m \in 1..Len(run.jobs) :
           /\ n # m => JobPaths(n) \cap JobPaths(m) = {}
           /\ ImgPath(run.jobs[n].i, run.jobs[n].j) \notin
                  {TxtPath(run.jobs[m].i, run.jobs[m].j),
                   ReadPath(run.jobs[m].i, run.jobs[m].j)}
    /\ run.pc # "idle" =>
           \A q \in DOMAIN fs :
               Cardinality({n \in 1..Len(run.jobs) : q \in JobPaths(n)}) = 1
    /\ \A n \in 1..Len(run.jobs) :
           run.jobs[n].pc = "spawned" =>
               /\ ImgPath(run.jobs[n].i, run.jobs[n].j) \in DOMAIN fs
               /\ fs[ImgPath(run.jobs[n].i, run.jobs[n].j)] =
                      << run.jobs[n].rect.i1 - run.jobs[n].rect.i0,
                         run.jobs[n].rect.j1 - run.jobs[n].rect.j0 >>

C18_Witness ==
    /\ run.pc = "running"
    /\ process_task.task.grid = ExampleGrid
    /\ \E n, m \in 1..Len(run.jobs) :
           /\ run.jobs[n].i = run.jobs[m].i /\ run.jobs[n].j # run.jobs[m].j
           /\ run.jobs[n].pc = "spawned" /\ run.jobs[m].pc = "spawned"
           /\ ImgPath(run.jobs[n].i, run.jobs[n].j) \in DOMAIN fs
           /\ ImgPath(run.jobs[m].i, run.jobs[m].j) \in DOMAIN fs

\* ------------------------------------------------------------ claim C21
\* C21: for every staged snapshot the expected job count N stored in the task
\* equals (H-1)*(V-1) of the snapshot grid, and a run has exactly N jobs:
\* exactly one job for each pair (i, j) with 0 <= i < H-1 and 0 <= j < V-1,
\* none missing and none duplicated; a run that returns has resolved them all.
C21_OneJobPerCell ==
    /\ process_task.task.ready =>
           process_task.task.n_tasks = (StagedH - 1) * (StagedV - 1)
    /\ run.pc # "idle" =>
           /\ Len(run.jobs) = process_task.task.n_tasks
           /\ \A n \in 1..Len(run.jobs) :
                  /\ run.jobs[n].i \in 0..(StagedH - 2)
                  /\ run.jobs[n].j \in 0..(StagedV - 2)
           /\ \A r \in 0..(StagedH - 2), c \in 0..(StagedV - 2) :
                  \E n \in 1..Len(run.jobs) : JobsAt(r, c) = {n}
    /\ run.pc = "returned" =>
           \A n \in 1..Len(run.jobs) : run.jobs[n].pc \in {"ok", "err"}

C21_Witness ==
    /\ run.pc = "returned"
    /\ process_task.task.grid = ExampleGrid
    /\ process_task.task.n_tasks = 6
    /\ {<< run.jobs[n].i, run.jobs[n].j >> : n \in 1..Len(run.jobs)} =
           (0..2) \X (0..1)
    /\ progress = 6

\* ------------------------------------------------------------ claim C22
HitsH(g, extents, p) ==
    {k \in 1..Len(g.horizontals) : HorizInBounds(g.horizontals[k], extents, p)}
HitsV(g, extents, p) ==
    {k \in 1..Len(g.verticals) : VertInBounds(g.verticals[k], extents, p)}
MovedH(g, h) == {k \in 1..Len(g.horizontals) : h.horizontals[k] # g.horizontals[k]}
MovedV(g, h) == {k \in 1..Len(g.verticals) : h.verticals[k] # g.verticals[k]}

\* C22: in every interaction frame at most one separator is translated by a
\* pointer drag: the first separator whose hit test succeeds (horizontals
\* tested before verticals) clears the frame's drag_enabled flag and no later
\* separator moves in that frame; when the middle button is held all
\* separators are translated by the same delta and no separator is dragged
\* individually in that frame (nor when the secondary button is held).
C22_OneSeparatorPerFrame ==
    [][LET g == sort_horiz(sort_vert(grid))
           extents == ss'.extents
       IN  /\ frame'.n_dragged <= 1
           /\ frame'.kind = "left" =>
                  /\ Cardinality(MovedH(g, grid')) + Cardinality(MovedV(g, grid')) <= 1
                  /\ \E p \in Pointers, d \in DragDeltas :
                         LET hh == HitsH(g, extents, p)
                             hv == HitsV(g, extents, p)
                         IN  /\ frame'.n_dragged = IF hh \cup hv = {} THEN 0 ELSE 1
                             /\ ss'.drag_enabled = (hh \cup hv = {})
                             /\ grid' =
                                    IF hh # {}
                                    THEN [g EXCEPT !.horizontals[SetMin(hh)] = @ + d[2]]
                                    ELSE IF hv # {}
                                    THEN [g EXCEPT !.verticals[SetMin(hv)] = @ + d[1]]
                                    ELSE g
           /\ frame'.kind \in {"middle", "secondary"} =>
                  /\ frame'.n_dragged = 0
                  /\ ~ss'.drag_enabled
           /\ frame'.kind = "secondary" => grid' = g
           /\ frame'.kind = "middle" =>
                  \E d \in DragDeltas :
                      /\ \A k \in 1..Len(g.horizontals) :
                             grid'.horizontals[k] = g.horizontals[k] + d[2]
                      /\ \A k \in 1..Len(g.verticals) :
                             grid'.verticals[k] = g.verticals[k] + d[1]
                      /\ Len(grid'.horizontals) = Len(g.horizontals)
                      /\ Len(grid'.verticals) = Len(g.verticals)]_vars

\* a drag frame with the pointer on a horizontal and on a vertical separator:
\* the horizontal has moved from 17 to 25, the vertical still stands at 3
C22_Witness ==
    /\ frame.kind = "left"
    /\ frame.n_dragged = 1
    /\ ~ss.drag_enabled
    /\ grid.horizontals = << 16, 25, 18 >>
    /\ grid.verticals = << 2, 3, 4 >>
    /\ ss.extents.ymin = 16 /\ ss.extents.ymax = 18

====
